---- MODULE Spec2Model ----
(***************************************************************************)
(* Model of the PDF ingestion pipeline of src/ingest.py                    *)
(* (extract_heading, ingest_pdf_to_vectordb) and of the query path of      *)
(* src/streamlit_app.py (retriever.invoke, format_docs_with_metadata).     *)
(*                                                                         *)
(* Text.  A Python str is modelled as a sequence of atoms [c, n]: the      *)
(* character class c repeated n times.  The classes are the ones the       *)
(* regular expressions and str methods of the source tell apart:           *)
(*   "Chapter" "CHAPTER" "chapter"   the 7-letter keyword, in three cases  *)
(*   "Section" "SECTION" "section"   the 7-letter keyword, in three cases  *)
(*   "1"  a decimal digit      "."  a full stop                            *)
(*   " "  a blank              "NL" a line feed                            *)
(*   "x" "X"  a letter that is part of no keyword                          *)
(*   "Here's the link:"  the 16-character tail of HEADING_PATTERNS[4]      *)
(* A keyword atom always has n = 1 in the inputs; a run of 1500 letters    *)
(* is the single atom [c |-> "x", n |-> 1500].                             *)
(***************************************************************************)
EXTENDS Integers, Sequences, FiniteSets, TLC

VARIABLES
  pc,               \* where ingest_pdf_to_vectordb stands: idle, load, split,
                    \* pages, embed, save, hybrid, returned, raised
  file,             \* what is on disk at pdf_path: [readable, pages]
  pdf_path,         \* argument pdf_path
  arg_name,         \* argument collection_name as passed (NoName: omitted)
  collection_name,  \* local collection_name after line 47
  doc,              \* loader.load(): the page Documents
  chunks,           \* text_splitter.split_documents(doc), line 58
  chunk_docs,       \* the tagged Documents appended at line 104
  current_chapter,  \* local current_chapter
  page_i,           \* number of pages the loop of line 63 has processed
  splitter_calls,   \* the fragments line 86 has passed to split_text
  n_embedded,       \* chunks embedded so far inside FAISS.from_documents
  vectorstore,      \* the in-memory FAISS store
  store,            \* the directory vector_stores/: path -> saved index
  store0,           \* the directory as it was when the call began
  retriever,        \* the hybrid retriever returned, or NoRetriever
  retrieved_docs,   \* streamlit_app: retriever.invoke(user_query)
  context,          \* streamlit_app: format_docs_with_metadata(retrieved_docs)
  outcome,          \* running, ok, or the error the call raised
  history,          \* the finished calls, oldest first
  hText,            \* extract_heading: the argument `text`
  hResult           \* extract_heading: [pattern, match] returned, or NoResult

vars == <<pc, file, pdf_path, arg_name, collection_name, doc, chunks,
          chunk_docs, current_chapter, page_i, splitter_calls, n_embedded,
          vectorstore, store, store0, retriever, retrieved_docs, context,
          outcome, history, hText, hResult>>

ingestVars == <<pc, file, pdf_path, arg_name, collection_name, doc, chunks,
                chunk_docs, current_chapter, page_i, splitter_calls,
                n_embedded, vectorstore, store, store0, retriever,
                retrieved_docs, context, outcome, history>>

----------------------------------------------------------------------------
(* Bounds of the model                                                      *)

MaxLen == 5

MaxPages == 2

MaxRuns == 2

UuidSpace == 2

SearchK == 2

----------------------------------------------------------------------------
(* Program constants                                                        *)

chunk_size == 1000

chunk_overlap == 200

FragmentThreshold == 1000

----------------------------------------------------------------------------
(* Text primitives                                                          *)

A(c) == [c |-> c, n |-> 1]

R(c, n) == [c |-> c, n |-> n]

\* Python's None for a str-valued result, kept in the type of a text.
None == <<[c |-> "None", n |-> 0]>>

\* str.lower() on one character class
LowerClass(c) ==
  CASE c \in {"Chapter", "CHAPTER", "chapter"} -> "chapter"
    [] c \in {"Section", "SECTION", "section"} -> "section"
    [] c = "X" -> "x"
    [] c = "Here's the link:" -> "here's the link:"
    [] OTHER -> c

\* str.lower()
Lower(t) == [i \in 1..Len(t) |-> [c |-> LowerClass(t[i].c), n |-> t[i].n]]

\* number of characters of one occurrence of a class
Width(c) ==
  CASE LowerClass(c) \in {"chapter", "section"} -> 7
    [] LowerClass(c) = "here's the link:" -> 16
    [] OTHER -> 1

RECURSIVE StrLen(_)
\* len(text)
StrLen(t) == IF t = <<>> THEN 0 ELSE Head(t).n * Width(Head(t).c) + StrLen(Tail(t))

\* \s: a whitespace character
IsWs(c) == c \in {" ", "NL"}

\* \d
IsDigit(c) == c = "1"

\* the first character of the class is a word character (\w)
IsWordStart(c) == c \notin {".", " ", "NL"}

\* the first character of the class is in [A-Za-z]
IsLetterStart(c) == c \notin {".", " ", "NL", "1"}

\* `sub in text` for a keyword sub, on a lower-cased text
Contains(t, kw) == \E i \in 1..Len(t) : t[i].c = kw

\* positions where ^ matches under re.MULTILINE and a character follows
LineStarts(t) == {i \in 1..Len(t) : i = 1 \/ t[i - 1].c = "NL"}

RECURSIVE LineEnd(_, _)
\* index of the last atom that .* / .+ consumes when it starts at atom i
LineEnd(t, i) ==
  IF i > Len(t) \/ t[i].c = "NL" THEN i - 1 ELSE LineEnd(t, i + 1)

RECURSIVE DigitsEnd(_, _)
\* \d+ started at a digit atom i: index of the first atom after the digits
DigitsEnd(t, i) ==
  IF i <= Len(t) /\ IsDigit(t[i].c) THEN DigitsEnd(t, i + 1) ELSE i

RECURSIVE GroupsEnd(_, _)
\* (?:\.\d+)* started at atom j: index of the first atom after the groups
GroupsEnd(t, j) ==
  IF j + 1 <= Len(t) /\ t[j].c = "." /\ t[j].n = 1 /\ IsDigit(t[j + 1].c)
  THEN GroupsEnd(t, DigitsEnd(t, j + 1))
  ELSE j

\* ^\d+(?:\.\d+)* at atom s: index of the first atom after the numeral, 0 if none
NumeralEnd(t, s) ==
  IF s <= Len(t) /\ IsDigit(t[s].c) THEN GroupsEnd(t, DigitsEnd(t, s)) ELSE 0

RECURSIVE WsEnd(_, _)
\* \s* started at atom j: index of the first atom after the whitespace
WsEnd(t, j) == IF j <= Len(t) /\ IsWs(t[j].c) THEN WsEnd(t, j + 1) ELSE j

SetMax(S) == CHOOSE m \in S : \A k \in S : k <= m

SetMin(S) == CHOOSE m \in S : \A k \in S : m <= k

----------------------------------------------------------------------------
(* HEADING_PATTERNS: each pattern's match anchored at line start s, or None *)

\* ^(Chapter|CHAPTER)\b.*  and  ^(Section|SECTION)\b.*   (IGNORECASE)
MatchKeywordLine(t, s, kw) ==
  IF /\ LowerClass(t[s].c) = kw
     /\ t[s].n = 1
     /\ (s = Len(t) \/ ~IsWordStart(t[s + 1].c))
  THEN SubSeq(t, s, LineEnd(t, s + 1))
  ELSE None

\* ^\d+(?:\.\d+)*\s+.+
\* \s+ is greedy and also matches line feeds; when the whitespace runs to the
\* end of the text, \s+ gives characters back until .+ finds a blank to take.
MatchNumbered(t, s) ==
  LET j == NumeralEnd(t, s)
      k == WsEnd(t, j)
      blanks == {i \in j..Len(t) : t[i].c = " "}
  IN IF j = 0 \/ k = j THEN None
     ELSE IF k <= Len(t) THEN SubSeq(t, s, LineEnd(t, k))
     ELSE IF blanks = {} THEN None
     ELSE LET m == SetMax(blanks)
          IN IF m > j \/ t[m].n >= 2 THEN SubSeq(t, s, m) ELSE None

\* ^\d+(?:\.\d+)*\s+[A-Za-z].*
MatchNumberedAlpha(t, s) ==
  LET j == NumeralEnd(t, s)
      k == WsEnd(t, j)
  IN IF j = 0 \/ k = j \/ k > Len(t) THEN None
     ELSE IF IsLetterStart(t[k].c) THEN SubSeq(t, s, LineEnd(t, k))
     ELSE None

\* ^chapter\.\s+Here's\s+the\s+link:   (IGNORECASE)
MatchDiagnostic(t, s) ==
  LET k == WsEnd(t, s + 2)
  IN IF /\ s + 3 <= Len(t)
        /\ LowerClass(t[s].c) = "chapter" /\ t[s].n = 1
        /\ t[s + 1].c = "." /\ t[s + 1].n = 1
        /\ k > s + 2 /\ k <= Len(t)
        /\ LowerClass(t[k].c) = "here's the link:"
     THEN SubSeq(t, s, k - 1) \o <<[c |-> t[k].c, n |-> 1]>>
     ELSE None

MatchAt(p, t, s) ==
  CASE p = "chapter" -> MatchKeywordLine(t, s, "chapter")
    [] p = "section" -> MatchKeywordLine(t, s, "section")
    [] p = "numbered" -> MatchNumbered(t, s)
    [] p = "numbered_alpha" -> MatchNumberedAlpha(t, s)
    [] p = "diagnostic" -> MatchDiagnostic(t, s)

\* pattern.search(text): the leftmost match, or None
PatternSearch(p, t) ==
  LET hits == {s \in LineStarts(t) : MatchAt(p, t, s) # None}
  IN IF hits = {} THEN None ELSE MatchAt(p, t, SetMin(hits))

HEADING_PATTERNS_Swapped ==
  <<"chapter", "section", "numbered_alpha", "numbered", "diagnostic">>

HEADING_PATTERNS ==
  <<"chapter", "section", "numbered", "numbered_alpha", "diagnostic">>

NoResult == [pattern |-> "none", match |-> None]

RECURSIVE ExtractFrom(_, _)
\* the loop of extract_heading from pattern index k on; `pattern` records which
\* pattern returned
ExtractFrom(k, text) ==
  IF k > Len(HEADING_PATTERNS) THEN NoResult
  ELSE LET m == PatternSearch(HEADING_PATTERNS[k], text)
       IN IF m # None THEN [pattern |-> HEADING_PATTERNS[k], match |-> m]
          ELSE ExtractFrom(k + 1, text)

extract_heading(text) == ExtractFrom(1, text).match

----------------------------------------------------------------------------
(* str and os.path helpers                                                  *)

RECURSIVE StripLeft(_)
StripLeft(t) == IF t # <<>> /\ IsWs(Head(t).c) THEN StripLeft(Tail(t)) ELSE t

RECURSIVE StripRight(_)
StripRight(t) ==
  IF t # <<>> /\ IsWs(t[Len(t)].c) THEN StripRight(SubSeq(t, 1, Len(t) - 1)) ELSE t

\* str.strip()
Strip(t) == StripRight(StripLeft(t))

\* the first k characters of one atom; a keyword cut short is plain letters
AtomPrefix(a, k) ==
  IF Width(a.c) = 1 THEN [c |-> a.c, n |-> k] ELSE [c |-> "x", n |-> k]

\* the characters of one atom after its first k
AtomSuffix(a, k) ==
  IF Width(a.c) = 1 THEN [c |-> a.c, n |-> a.n - k]
  ELSE [c |-> "x", n |-> a.n * Width(a.c) - k]

RECURSIVE Take(_, _)
\* text[:k]
Take(t, k) ==
  IF k <= 0 \/ t = <<>> THEN <<>>
  ELSE LET w == Head(t).n * Width(Head(t).c)
       IN IF w <= k THEN <<Head(t)>> \o Take(Tail(t), k - w)
          ELSE <<AtomPrefix(Head(t), k)>>

RECURSIVE Drop(_, _)
\* text[k:]
Drop(t, k) ==
  IF t = <<>> THEN <<>>
  ELSE IF k <= 0 THEN t
  ELSE LET w == Head(t).n * Width(Head(t).c)
       IN IF w <= k THEN Drop(Tail(t), k - w)
          ELSE <<AtomSuffix(Head(t), k)>> \o Tail(t)

\* a path is a sequence of characters; "/" separates its components
RECURSIVE Basename(_)
\* os.path.basename(path)
Basename(p) ==
  IF \E i \in 1..Len(p) : p[i] = "/"
  THEN Basename(SubSeq(p, SetMin({i \in 1..Len(p) : p[i] = "/"}) + 1, Len(p)))
  ELSE p

\* os.path.splitext(name)[0]: cut at the last dot, unless only dots precede it
SplitextRoot(name) ==
  LET dots == {i \in 1..Len(name) : name[i] = "."}
  IN IF dots = {} THEN name
     ELSE LET d == SetMax(dots)
          IN IF \E i \in 1..(d - 1) : name[i] # "." THEN SubSeq(name, 1, d - 1)
             ELSE name

\* the argument collection_name left out (None)
NoName == <<"None">>

\* lines 46-47
CollectionName(path, name) ==
  IF name = NoName THEN SplitextRoot(Basename(path)) ELSE name

\* a mutant of FaissIndexPath: one directory for every collection
FaissIndexPath_Shared(name) == <<"vector_stores/", "_faiss">>

\* line 109: f"vector_stores/{collection_name}_faiss"
FaissIndexPath(name) == <<"vector_stores/">> \o name \o <<"_faiss">>

----------------------------------------------------------------------------
(* RecursiveCharacterTextSplitter(chunk_size, chunk_overlap), line 57.      *)
(* The splitter is a library: it is modelled by what it promises, ordered   *)
(* pieces of the text, each stripped, non-empty and at most chunk_size      *)
(* characters long, consecutive windows sharing chunk_overlap characters.   *)
(* Two cutting strategies stand for its choice of boundaries: "hard" cuts   *)
(* windows out of the whole text, "lines" cuts at line feeds first.         *)

SplitStrategies == {"hard", "lines"}

RECURSIVE HardCut(_)
HardCut(t) ==
  IF StrLen(t) <= chunk_size THEN <<t>>
  ELSE <<Take(t, chunk_size)>> \o HardCut(Drop(t, chunk_size - chunk_overlap))

RECURSIVE LineCut(_)
LineCut(t) ==
  LET nls == {i \in 1..Len(t) : t[i].c = "NL"}
  IN IF nls = {} THEN HardCut(t)
     ELSE LET i == SetMin(nls)
          IN HardCut(SubSeq(t, 1, i - 1)) \o LineCut(SubSeq(t, i + 1, Len(t)))

RECURSIVE StripAll(_)
\* strip every piece and drop the empty ones
StripAll(ps) ==
  IF ps = <<>> THEN <<>>
  ELSE (IF Strip(Head(ps)) = <<>> THEN <<>> ELSE <<Strip(Head(ps))>>)
       \o StripAll(Tail(ps))

\* text_splitter.split_text(text)
SplitText(strategy, t) ==
  IF strategy = "hard" THEN StripAll(HardCut(t)) ELSE StripAll(LineCut(t))

----------------------------------------------------------------------------
(* Documents                                                                *)

\* the page number a page carries no "page" key for: metadata.get("page", None)
NoPage == 0 - 1

Document(content, meta) == [page_content |-> content, metadata |-> meta]

\* dict.get(key, default)
Get(meta, key, default) == IF key \in DOMAIN meta THEN meta[key] ELSE default

\* PyPDFLoader: one Document per page; `page` is absent for a page without one
LoadedPage(path, p) ==
  IF p.page = NoPage THEN Document(p.text, [source |-> path])
  ELSE Document(p.text, [source |-> path, page |-> p.page])

RECURSIVE SplitDocumentsFrom(_, _, _)
\* text_splitter.split_documents(doc): each piece keeps its page's metadata
SplitDocumentsFrom(strategy, docs, i) ==
  IF i > Len(docs) THEN <<>>
  ELSE LET pieces == SplitText(strategy, docs[i].page_content)
       IN [k \in 1..Len(pieces) |-> Document(pieces[k], docs[i].metadata)]
          \o SplitDocumentsFrom(strategy, docs, i + 1)

\* a mutant of Classify: no chapter heading on the page resets the chapter
Classify_Reset(heading, cur) ==
  IF heading # None /\ heading # <<>> /\ Contains(Lower(heading), "chapter")
  THEN [chapter |-> heading, section |-> None, current_chapter |-> heading]
  ELSE [chapter |-> None, section |-> None, current_chapter |-> None]

\* a mutant of Classify: "section" is looked for before "chapter"
Classify_SectionFirst(heading, cur) ==
  IF heading # None /\ heading # <<>>
  THEN LET low == Lower(heading)
       IN IF Contains(low, "section")
          THEN [chapter |-> cur, section |-> heading, current_chapter |-> cur]
          ELSE IF Contains(low, "chapter")
          THEN [chapter |-> heading, section |-> None, current_chapter |-> heading]
          ELSE [chapter |-> cur, section |-> heading, current_chapter |-> cur]
  ELSE [chapter |-> cur, section |-> None, current_chapter |-> cur]

\* re.match(r'^\d+(?:\.\d+)*\s+', heading), line 79
IsNumberedHeading(h) ==
  LET j == NumeralEnd(h, 1) IN j # 0 /\ j <= Len(h) /\ IsWs(h[j].c)

\* lines 70-83: the page's chapter and section, and current_chapter after it
Classify(heading, cur) ==
  IF heading # None /\ heading # <<>>
  THEN LET low == Lower(heading)
       IN IF Contains(low, "chapter")
          THEN [chapter |-> heading, section |-> None, current_chapter |-> heading]
          ELSE IF Contains(low, "section")
          THEN [chapter |-> cur, section |-> heading, current_chapter |-> cur]
          ELSE IF IsNumberedHeading(heading)
          THEN [chapter |-> cur, section |-> heading, current_chapter |-> cur]
          ELSE [chapter |-> cur, section |-> None, current_chapter |-> cur]
  ELSE [chapter |-> cur, section |-> None, current_chapter |-> cur]

\* `value or ""`
OrEmpty(v) == IF v = None THEN <<>> ELSE v

\* a mutant of NeedsSplit: the threshold is off by one
NeedsSplit_OffByOne(frag_text) == StrLen(frag_text) > FragmentThreshold + 1

\* line 87: len(frag_text) > 1000
NeedsSplit(frag_text) == StrLen(frag_text) > FragmentThreshold

\* lines 85-89
SmallChunks(strategy, frag_text) ==
  IF NeedsSplit(frag_text) THEN SplitText(strategy, frag_text) ELSE <<frag_text>>

\* a mutant of KeepChunk: the empty sub-chunk is not skipped
KeepChunk_Always(chunk_text) == TRUE

\* lines 93-94: `if not chunk_text: continue`
KeepChunk(chunk_text) == chunk_text # <<>>

\* line 102: the five parts of the f-string, which it joins injectively
\* (decimal numbers or None between the fixed "_p", "_f", "_s", "_")
ChunkId(path, page_num, frag_idx, sidx, uuid) ==
  <<Basename(path), page_num, frag_idx, sidx, uuid>>

\* lines 96-103
ChunkMeta(path, name, tags, page_num, sidx, uuid) ==
  [book_title |-> name,
   chapter |-> OrEmpty(tags.chapter),
   section |-> OrEmpty(tags.section),
   page_number |-> page_num,
   source |-> Basename(path),
   chunk_id |-> ChunkId(path, page_num, 0, sidx, uuid)]

\* the sub-chunks of small_chunks that line 104 appends, by 1-based position
Emitted(small_chunks) ==
  {k \in 1..Len(small_chunks) : KeepChunk(Strip(small_chunks[k]))}

RECURSIVE EmitFrom(_, _, _, _, _, _, _)
\* lines 91-104, from position k of small_chunks on; us[k] is uuid4().hex[:8]
EmitFrom(k, small_chunks, path, name, tags, page_num, us) ==
  IF k > Len(small_chunks) THEN <<>>
  ELSE (IF KeepChunk(Strip(small_chunks[k]))
        THEN <<Document(Strip(small_chunks[k]),
                        ChunkMeta(path, name, tags, page_num, k - 1, us[k]))>>
        ELSE <<>>)
       \o EmitFrom(k + 1, small_chunks, path, name, tags, page_num, us)

\* format_docs_with_metadata, streamlit_app.py lines 42-48: one entry per doc
Unknown == <<A("?")>>

FormatDoc(d) ==
  [chapter |-> Get(d.metadata, "chapter", Unknown),
   section |-> Get(d.metadata, "section", Unknown),
   page |-> Get(d.metadata, "page_number", Unknown),
   content |-> d.page_content]

format_docs_with_metadata(docs) == [i \in 1..Len(docs) |-> FormatDoc(docs[i])]

----------------------------------------------------------------------------
(* ingest_pdf_to_vectordb, one action per step                              *)

NoRetriever == [dense |-> <<>>, lexical |-> <<>>, weights |-> <<0, 0>>]

NoVectorstore == [docs |-> <<>>]

RunId == Len(history) + 1

Finished(ok) ==
  Append(history, [pdf_path |-> pdf_path, arg_name |-> arg_name,
                   name |-> collection_name, ok |-> ok])

\* an exception leaves ingest_pdf_to_vectordb: nothing is returned
Raise(kind) ==
  /\ pc' = "raised"
  /\ outcome' = kind
  /\ history' = Finished(FALSE)

\* the test of the page loop, line 63
AfterPage(k, n) == IF k >= n THEN "embed" ELSE "pages"

\* the call, lines 33-50
Ingest(Files, Paths, Names, maxRuns) ==
  /\ pc \in {"idle", "returned", "raised"}
  /\ Len(history) < maxRuns
  /\ \E f \in Files, p \in Paths, a \in Names :
       /\ file' = f
       /\ pdf_path' = p
       /\ arg_name' = a
       /\ collection_name' = CollectionName(p, a)
  /\ pc' = "load"
  /\ doc' = <<>>
  /\ chunks' = <<>>
  /\ chunk_docs' = <<>>
  /\ current_chapter' = None
  /\ page_i' = 0
  /\ splitter_calls' = <<>>
  /\ n_embedded' = 0
  /\ vectorstore' = NoVectorstore
  /\ store0' = store
  /\ retriever' = NoRetriever
  /\ retrieved_docs' = <<>>
  /\ context' = <<>>
  /\ outcome' = "running"
  /\ UNCHANGED <<store, history, hText, hResult>>

\* lines 53-54: loader.load() raises on a missing or invalid file
LoadPdf ==
  /\ pc = "load"
  /\ IF file.readable
     THEN /\ doc' = [i \in 1..Len(file.pages) |-> LoadedPage(pdf_path, file.pages[i])]
          /\ pc' = "split"
          /\ UNCHANGED <<outcome, history>>
     ELSE /\ Raise("LoadError")
          /\ UNCHANGED doc
  /\ UNCHANGED <<file, pdf_path, arg_name, collection_name, chunks, chunk_docs,
                 current_chapter, page_i, splitter_calls, n_embedded,
                 vectorstore, store, store0, retriever, retrieved_docs,
                 context, hText, hResult>>

\* lines 57-61
SplitDocuments ==
  /\ pc = "split"
  /\ \E strategy \in SplitStrategies :
       chunks' = SplitDocumentsFrom(strategy, doc, 1)
  /\ pc' = AfterPage(0, Len(doc))
  /\ UNCHANGED <<file, pdf_path, arg_name, collection_name, doc, chunk_docs,
                 current_chapter, page_i, splitter_calls, n_embedded,
                 vectorstore, store, store0, retriever, retrieved_docs,
                 context, outcome, history, hText, hResult>>

\* lines 63-104: one pass of the page loop
ProcessPage(Uuids) ==
  /\ pc = "pages"
  /\ page_i < Len(doc)
  /\ LET page_doc == doc[page_i + 1]
         page_text == page_doc.page_content
         page_num == Get(page_doc.metadata, "page", NoPage)
         heading == extract_heading(page_text)
         tags == Classify(heading, current_chapter)
     IN \E strategy \in SplitStrategies :
          LET small_chunks == SmallChunks(strategy, page_text)
          IN \E us \in [1..Len(small_chunks) -> Uuids] :
               /\ \A k \in 1..Len(small_chunks) :
                    k \notin Emitted(small_chunks) => us[k] = SetMin(Uuids)
               /\ chunk_docs' = chunk_docs \o
                    EmitFrom(1, small_chunks, pdf_path, collection_name, tags,
                             page_num, us)
               /\ current_chapter' = tags.current_chapter
               /\ splitter_calls' =
                    IF NeedsSplit(page_text) THEN Append(splitter_calls, page_text)
                    ELSE splitter_calls
  /\ page_i' = page_i + 1
  /\ pc' = AfterPage(page_i + 1, Len(doc))
  /\ UNCHANGED <<file, pdf_path, arg_name, collection_name, doc, chunks,
                 n_embedded, vectorstore, store, store0, retriever,
                 retrieved_docs, context, outcome, history, hText, hResult>>

\* line 108, inside FAISS.from_documents: one more chunk is embedded
EmbedChunk ==
  /\ pc = "embed"
  /\ n_embedded < Len(chunks)
  /\ n_embedded' = n_embedded + 1
  /\ UNCHANGED <<pc, file, pdf_path, arg_name, collection_name, doc, chunks,
                 chunk_docs, current_chapter, page_i, splitter_calls,
                 vectorstore, store, store0, retriever, retrieved_docs,
                 context, outcome, history, hText, hResult>>

\* a mutant of EmbedFails: the vectors computed so far are saved and served
EmbedFails_Partial ==
  /\ pc = "embed"
  /\ n_embedded < Len(chunks)
  /\ store' = (FaissIndexPath(collection_name) :>
                 [run |-> RunId, docs |-> SubSeq(chunks, 1, n_embedded)]) @@ store
  /\ Raise("EmbeddingError")
  /\ UNCHANGED <<file, pdf_path, arg_name, collection_name, doc, chunks,
                 chunk_docs, current_chapter, page_i, splitter_calls,
                 n_embedded, vectorstore, store0, retriever,
                 retrieved_docs, context, hText, hResult>>

\* line 108: embedding a chunk fails; the exception leaves the call
EmbedFails ==
  /\ pc = "embed"
  /\ n_embedded < Len(chunks)
  /\ Raise("EmbeddingError")
  /\ UNCHANGED <<file, pdf_path, arg_name, collection_name, doc, chunks,
                 chunk_docs, current_chapter, page_i, splitter_calls,
                 n_embedded, vectorstore, store, store0, retriever,
                 retrieved_docs, context, hText, hResult>>

\* line 108: the index is built over the vectors; FAISS.from_documents reads
\* the dimension off the first vector and raises IndexError when there is none
BuildFaiss ==
  /\ pc = "embed"
  /\ n_embedded = Len(chunks)
  /\ IF chunks = <<>>
     THEN /\ Raise("IndexError")
          /\ UNCHANGED vectorstore
     ELSE /\ vectorstore' = [docs |-> chunks]
          /\ pc' = "save"
          /\ UNCHANGED <<outcome, history>>
  /\ UNCHANGED <<file, pdf_path, arg_name, collection_name, doc, chunks,
                 chunk_docs, current_chapter, page_i, splitter_calls,
                 n_embedded, store, store0, retriever, retrieved_docs,
                 context, hText, hResult>>

\* lines 109-112: save_local writes the index files of the directory anew
SaveLocal ==
  /\ pc = "save"
  /\ store' = (FaissIndexPath(collection_name) :>
                 [run |-> RunId, docs |-> vectorstore.docs]) @@ store
  /\ pc' = "hybrid"
  /\ UNCHANGED <<file, pdf_path, arg_name, collection_name, doc, chunks,
                 chunk_docs, current_chapter, page_i, splitter_calls,
                 n_embedded, vectorstore, store0, retriever, retrieved_docs,
                 context, outcome, history, hText, hResult>>

\* lines 114-126: both retrievers, the ensemble, and the return
BuildHybrid ==
  /\ pc = "hybrid"
  /\ retriever' = [dense |-> vectorstore.docs, lexical |-> chunks,
                   weights |-> <<6, 4>>]
  /\ pc' = "returned"
  /\ outcome' = "ok"
  /\ history' = Finished(TRUE)
  /\ UNCHANGED <<file, pdf_path, arg_name, collection_name, doc, chunks,
                 chunk_docs, current_chapter, page_i, splitter_calls,
                 n_embedded, vectorstore, store, store0, retrieved_docs,
                 context, hText, hResult>>

RECURSIVE RankedLists(_, _)
\* the lists of at most k different Documents of D
RankedLists(D, k) ==
  IF k = 0 THEN {<<>>}
  ELSE LET S == RankedLists(D, k - 1)
       IN S \cup {Append(r, d) : r \in {q \in S : Len(q) = k - 1}, d \in D}

Range(s) == {s[i] : i \in 1..Len(s)}

NoDuplicates(s) == \A i, j \in 1..Len(s) : i # j => s[i] # s[j]

\* streamlit_app.py lines 153-154: a query; the ranking is the libraries'
Search ==
  /\ pc = "returned"
  /\ \E r \in RankedLists(Range(retriever.dense) \cup Range(retriever.lexical),
                          SearchK) :
       /\ r # <<>>
       /\ NoDuplicates(r)
       /\ retrieved_docs' = r
       /\ context' = format_docs_with_metadata(r)
  /\ UNCHANGED <<pc, file, pdf_path, arg_name, collection_name, doc, chunks,
                 chunk_docs, current_chapter, page_i, splitter_calls,
                 n_embedded, vectorstore, store, store0, retriever, outcome,
                 history, hText, hResult>>

----------------------------------------------------------------------------
(* Inputs                                                                   *)

Chap == A("Chapter")

Sect == A("Section")

Dig == A("1")

Dot == A(".")

Sp == A(" ")

Nl == A("NL")

\* the documents of at most MaxPages pages numbered as PyPDFLoader numbers them
LoaderDocs(Texts) ==
  UNION {{[i \in 1..k |-> [text |-> f[i], page |-> i - 1]] : f \in [1..k -> Texts]}
         : k \in 0..MaxPages}

\* the documents of at most MaxPages pages whose page numbers are any of Nums
AnyDocs(Texts, Nums) ==
  UNION {{[i \in 1..k |-> [text |-> f[i][1], page |-> f[i][2]]]
          : f \in [1..k -> Texts \X Nums]} : k \in 0..MaxPages}

Readable(Docs) == {[readable |-> TRUE, pages |-> d] : d \in Docs}

Unreadable == [readable |-> FALSE, pages |-> <<>>]

PdfPaths ==
  {<<"t", "/", "a", ".", "p">>, <<"u", "/", "a", ".", "p">>,
   <<"t", "/", "b", ".", "c", ".", "p">>}

CallerNames == {NoName, <<"b", ".", "c">>}

TagPaths == {<<"t", "/", "a", ".", "p">>}

InitIngest ==
  /\ pc = "idle"
  /\ file = Unreadable
  /\ pdf_path = <<>>
  /\ arg_name = NoName
  /\ collection_name = <<>>
  /\ doc = <<>>
  /\ chunks = <<>>
  /\ chunk_docs = <<>>
  /\ current_chapter = None
  /\ page_i = 0
  /\ splitter_calls = <<>>
  /\ n_embedded = 0
  /\ vectorstore = NoVectorstore
  /\ store = <<>>
  /\ store0 = <<>>
  /\ retriever = NoRetriever
  /\ retrieved_docs = <<>>
  /\ context = <<>>
  /\ outcome = "idle"
  /\ history = <<>>

----------------------------------------------------------------------------
(* Specification of extract_heading alone: every text of at most MaxLen     *)
(* atoms over HeadingAlphabet is an input.                                  *)

HeadingAlphabet ==
  {"Chapter", "section", "1", ".", " ", "NL", "x", "Here's the link:"}

RECURSIVE TextsUpTo(_)
TextsUpTo(k) ==
  IF k = 0 THEN {<<>>}
  ELSE LET S == TextsUpTo(k - 1)
       IN S \cup {Append(t, A(c)) : t \in {u \in S : Len(u) = k - 1},
                                     c \in HeadingAlphabet}

Unset == [pattern |-> "unset", match |-> None]

InitHeading ==
  /\ InitIngest
  /\ hText \in TextsUpTo(MaxLen)
  /\ hResult = Unset

CallExtractHeading ==
  /\ hResult = Unset
  /\ hResult' = ExtractFrom(1, hText)
  /\ UNCHANGED hText
  /\ UNCHANGED ingestVars

NextHeading == CallExtractHeading

SpecHeading == InitHeading /\ [][NextHeading]_vars

----------------------------------------------------------------------------
(* ingest_pdf_to_vectordb called again and again, at most MaxRuns times, on *)
(* files of one short page text: the saved indexes of several collections.  *)

StoreTexts == {<<Chap, Sp, Dig, Sp, R("x", 3)>>}

StoreFiles == {Unreadable} \cup Readable(LoaderDocs(StoreTexts))

Init ==
  /\ InitIngest
  /\ hText = <<>>
  /\ hResult = Unset

Next ==
  \/ Ingest(StoreFiles, PdfPaths, CallerNames, MaxRuns)
  \/ LoadPdf
  \/ SplitDocuments
  \/ ProcessPage({1})
  \/ EmbedChunk
  \/ EmbedFails
  \/ BuildFaiss
  \/ SaveLocal
  \/ BuildHybrid

Spec == Init /\ [][Next]_vars

----------------------------------------------------------------------------
(* The application: one upload, ingested under the file's name, then        *)
(* queries answered from the retriever (streamlit_app.py lines 137-154).    *)

QueryTexts == {<<Chap, Sp, Dig, Nl, R("x", 3)>>, <<Sect, Sp, Dig, Nl, R("x", 1500)>>}

QueryFiles == Readable(LoaderDocs(QueryTexts))

NextQuery ==
  \/ Ingest(QueryFiles, TagPaths, {NoName}, 1)
  \/ LoadPdf
  \/ SplitDocuments
  \/ ProcessPage({1})
  \/ EmbedChunk
  \/ EmbedFails
  \/ BuildFaiss
  \/ SaveLocal
  \/ BuildHybrid
  \/ Search

SpecQuery == Init /\ [][NextQuery]_vars

----------------------------------------------------------------------------
(* One call of ingest_pdf_to_vectordb over pages that differ in heading,    *)
(* blankness and length, numbered as PyPDFLoader numbers them.              *)

TagTexts ==
  { <<>>,                                                  \* an empty page
    <<R(" ", 2), Nl>>,                                     \* blanks only
    <<R(" ", 1001)>>,                                      \* 1001 blanks
    <<R("x", 3)>>,                                         \* no heading
    <<Sp, R("x", 3), Sp, Nl>>,                             \* text to trim
    <<Chap, Sp, Dig, Nl, R("x", 3)>>,                      \* Chapter 1
    <<A("CHAPTER"), Sp, Dig, Dot, Dig, Nl, R("x", 3)>>,    \* CHAPTER 1.1
    <<R("x", 3), Nl, Chap, Sp, Dig>>,                      \* heading on line 2
    <<Dig, Dot, Dig, Sp, A("X"), Nl, A("chapter"), Sp, Dig>>, \* 1.1 X / chapter 1
    <<Sect, Sp, Dig, Nl, R("x", 3)>>,                      \* Section 1
    <<Dig, Dot, Dig, Sp, R("x", 3)>>,                      \* 1.1 xxx
    <<Sect, Sp, A("chapter")>>,                            \* Section chapter
    <<Dig, Sp, A("chapter")>>,                             \* 1 chapter
    <<R("x", 1000)>>,                                      \* exactly 1000
    <<R("x", 1001)>>,                                      \* 1001
    <<Chap, Sp, Dig, Nl, R("x", 1500)>> }                  \* Chapter 1 + 1500

TagFiles == Readable(LoaderDocs(TagTexts))

NextTag ==
  \/ Ingest(TagFiles, TagPaths, {NoName}, 1)
  \/ LoadPdf
  \/ SplitDocuments
  \/ ProcessPage({1})
  \/ EmbedChunk
  \/ EmbedFails
  \/ BuildFaiss
  \/ SaveLocal
  \/ BuildHybrid

SpecTag == Init /\ [][NextTag]_vars

----------------------------------------------------------------------------
(* One call over pages whose page number may be absent or repeated, the     *)
(* random part of each chunk_id drawn from 1..UuidSpace.                    *)

IdTexts == {<<R("x", 3)>>, <<R("x", 1500)>>}

IdFiles == Readable(AnyDocs(IdTexts, {NoPage, 0, 1}))

NextIds ==
  \/ Ingest(IdFiles, TagPaths, {NoName}, 1)
  \/ LoadPdf
  \/ SplitDocuments
  \/ ProcessPage(1..UuidSpace)
  \/ EmbedChunk
  \/ EmbedFails
  \/ BuildFaiss
  \/ SaveLocal
  \/ BuildHybrid

SpecIds == Init /\ [][NextIds]_vars

----------------------------------------------------------------------------
(* Claims.  Under SpecTag a page's number is its index less one, so a       *)
(* chunk's page is read off its page_number.                                *)

PageOf(d) == d.metadata.page_number + 1

ChunksOfPage(i) ==
  {k \in 1..Len(chunk_docs) : chunk_docs[k].metadata.page_number = i - 1}

HeadingOf(i) == extract_heading(doc[i].page_content)

IsChapterHeading(h) == h # None /\ Contains(Lower(h), "chapter")

ChapterPagesUpTo(i) == {j \in 1..i : IsChapterHeading(HeadingOf(j))}

\* C1: every chunk of page i carries the heading of the latest page j <= i
\* whose heading contains "chapter", and the empty string exactly when there
\* is no such page; current_chapter, once set, is never None again.
C1_ChapterInheritance ==
  /\ \A k \in 1..Len(chunk_docs) :
       LET J == ChapterPagesUpTo(PageOf(chunk_docs[k]))
       IN /\ chunk_docs[k].metadata.chapter =
               IF J = {} THEN <<>> ELSE HeadingOf(SetMax(J))
          /\ chunk_docs[k].metadata.chapter = <<>> <=> J = {}
  /\ LET J == ChapterPagesUpTo(page_i)
     IN current_chapter = IF J = {} THEN None ELSE HeadingOf(SetMax(J))

\* a chunk of page 2, which has no chapter heading, carries page 1's chapter
C1_Witness ==
  /\ page_i = 2
  /\ IsChapterHeading(HeadingOf(1))
  /\ ~IsChapterHeading(HeadingOf(2))
  /\ \E k \in ChunksOfPage(2) : chunk_docs[k].metadata.chapter = HeadingOf(1)

\* C8: a chunk's section is its own page's heading when that heading holds no
\* "chapter" and holds "section" or is numbered, and is empty otherwise, so
\* no section reaches a later page; the chunks of one page agree on chapter
\* and section.
C8_SectionPageLocal ==
  /\ \A k \in 1..Len(chunk_docs) :
       LET h == HeadingOf(PageOf(chunk_docs[k]))
       IN chunk_docs[k].metadata.section =
            IF /\ h # None
               /\ ~IsChapterHeading(h)
               /\ (Contains(Lower(h), "section") \/ IsNumberedHeading(h))
            THEN h ELSE <<>>
  /\ \A k, m \in 1..Len(chunk_docs) :
       chunk_docs[k].metadata.page_number = chunk_docs[m].metadata.page_number
       => /\ chunk_docs[k].metadata.chapter = chunk_docs[m].metadata.chapter
          /\ chunk_docs[k].metadata.section = chunk_docs[m].metadata.section

\* page 1 has a section, page 2 has chunks and none of them carries it
C8_Witness ==
  /\ page_i = 2
  /\ \E k \in ChunksOfPage(1) : chunk_docs[k].metadata.section # <<>>
  /\ ChunksOfPage(2) # {}
  /\ \A k \in ChunksOfPage(2) : chunk_docs[k].metadata.section = <<>>

\* C4: every chunk's content is non-empty and trimmed; a processed page of
\* blanks only has no chunk, every other processed page has one, and the
\* loop runs to the last page.
C4_NoEmptyChunks ==
  /\ \A k \in 1..Len(chunk_docs) :
       /\ chunk_docs[k].page_content # <<>>
       /\ Strip(chunk_docs[k].page_content) = chunk_docs[k].page_content
  /\ \A i \in 1..page_i :
       Strip(doc[i].page_content) = <<>> <=> ChunksOfPage(i) = {}
  /\ pc \in {"embed", "save", "hybrid", "returned"} => page_i = Len(doc)

\* a blank page was skipped and the page after it was chunked
C4_Witness ==
  /\ page_i = 2
  /\ doc[1].page_content # <<>>
  /\ Strip(doc[1].page_content) = <<>>
  /\ ChunksOfPage(1) = {}
  /\ ChunksOfPage(2) # {}

ContentsWithinChunkSize ==
  \A k \in 1..Len(chunk_docs) : StrLen(chunk_docs[k].page_content) <= chunk_size

SplitterOnlyAboveThreshold ==
  \A i \in 1..Len(splitter_calls) : StrLen(splitter_calls[i]) > FragmentThreshold

\* C9 as stated: contents are at most 1000 characters, the splitter gets only
\* fragments longer than 1000, and any other fragment yields a single chunk,
\* the trimmed fragment.
C9_Original ==
  /\ ContentsWithinChunkSize
  /\ SplitterOnlyAboveThreshold
  /\ \A i \in 1..page_i :
       StrLen(doc[i].page_content) <= FragmentThreshold
       => /\ Cardinality(ChunksOfPage(i)) = 1
          /\ \A k \in ChunksOfPage(i) :
               chunk_docs[k].page_content = Strip(doc[i].page_content)

\* C9 amended: ... any other fragment yields the trimmed fragment as its
\* single chunk when that is non-empty, and no chunk when it is blank.
C9_ChunkLength ==
  /\ ContentsWithinChunkSize
  /\ SplitterOnlyAboveThreshold
  /\ \A i \in 1..page_i :
       StrLen(doc[i].page_content) <= FragmentThreshold
       => IF Strip(doc[i].page_content) = <<>> THEN ChunksOfPage(i) = {}
          ELSE /\ Cardinality(ChunksOfPage(i)) = 1
               /\ \A k \in ChunksOfPage(i) :
                    chunk_docs[k].page_content = Strip(doc[i].page_content)

\* a page of exactly 1000 characters gave one chunk of 1000, a longer page
\* went to the splitter and gave several
C9_Witness ==
  /\ page_i = 2
  /\ StrLen(doc[1].page_content) = FragmentThreshold
  /\ \E k \in ChunksOfPage(1) : StrLen(chunk_docs[k].page_content) = chunk_size
  /\ doc[2].page_content \in Range(splitter_calls)
  /\ Cardinality(ChunksOfPage(2)) >= 2

CitationKeys == {"chapter", "section", "page_number", "source", "chunk_id"}

\* C2: both indexes are built over the tagged chunks ingest returns, so each
\* retrieved passage is one of them and carries its citation tag and chunk_id.
C2_RetrievedAreTaggedChunks ==
  /\ pc = "returned" =>
       /\ retriever.dense = chunk_docs
       /\ retriever.lexical = chunk_docs
  /\ \A i \in 1..Len(retrieved_docs) :
       /\ retrieved_docs[i] \in Range(chunk_docs)
       /\ CitationKeys \subseteq DOMAIN retrieved_docs[i].metadata

FatalLoadInput == pc # "idle" /\ (~file.readable \/ file.pages = <<>>)

\* C5: a call whose loader fails or yields no page ends in LoadError, returns
\* no retriever and leaves the saved indexes as they were.
C5_FatalLoad ==
  FatalLoadInput =>
    /\ pc = "raised" => outcome = "LoadError"
    /\ pc # "returned"
    /\ retriever = NoRetriever
    /\ store = store0

\* C6: a failed embedding ends the call with nothing saved and nothing
\* returned; a returned retriever means every chunk was embedded and the index
\* over all of them is saved under the collection's path.
C6_NoPartialIndex ==
  /\ outcome = "EmbeddingError" =>
       /\ pc = "raised"
       /\ store = store0
       /\ retriever = NoRetriever
  /\ pc = "returned" =>
       /\ n_embedded = Len(chunks)
       /\ retriever.dense = chunks
       /\ \E p \in DOMAIN store :
            store[p] = [run |-> Len(history), docs |-> chunks]

\* embedding failed after a first chunk had been embedded
C6_Witness ==
  /\ outcome = "EmbeddingError"
  /\ n_embedded >= 1
  /\ n_embedded < Len(chunks)

OkRuns(n) == {r \in 1..Len(history) : history[r].ok /\ history[r].name = n}

WrittenUnder(n) ==
  {p \in DOMAIN store : history[store[p].run].name = n}

\* C7: between calls, each collection name with a successful ingest has
\* exactly one saved index, the one its latest successful ingest wrote, and a
\* name without one has none; the name is the argument, else the file name
\* without its extension.
C7_OverwriteOnReingest ==
  pc \in {"idle", "returned", "raised"} =>
    /\ \A r \in 1..Len(history) :
         history[r].name =
           IF history[r].arg_name = NoName
           THEN SplitextRoot(Basename(history[r].pdf_path))
           ELSE history[r].arg_name
    /\ \A r \in 1..Len(history) :
         LET n == history[r].name
         IN IF OkRuns(n) = {} THEN WrittenUnder(n) = {}
            ELSE /\ Cardinality(WrittenUnder(n)) = 1
                 /\ \A p \in WrittenUnder(n) : store[p].run = SetMax(OkRuns(n))

\* two files of one name in different folders were ingested in turn, a third
\* collection aside or not: one index, the second call's
C7_Witness ==
  /\ pc = "returned"
  /\ Len(history) >= 2
  /\ \E r \in 1..(Len(history) - 1) :
       /\ history[r].ok
       /\ history[r].name = collection_name
       /\ history[r].pdf_path # pdf_path
  /\ Cardinality(WrittenUnder(collection_name)) = 1
  /\ \A p \in WrittenUnder(collection_name) : store[p].run = Len(history)

ClaimOrder ==
  <<"chapter", "section", "numbered", "numbered_alpha", "diagnostic">>

Matching(t) == {k \in 1..5 : PatternSearch(ClaimOrder[k], t) # None}

FirstHit(p, t) == SetMin({s \in LineStarts(t) : MatchAt(p, t, s) # None})

\* C10: extract_heading returns the leftmost match of the first category, in
\* the order Chapter, Section, numbered, numbered-alphabetic, diagnostic, that
\* matches anywhere in the text, and None exactly when none matches; the
\* numbered category matches wherever the numbered-alphabetic one does, which
\* therefore never yields the result.
C10_HeadingPriority ==
  hResult # Unset =>
    LET M == Matching(hText)
    IN /\ hResult.match = None <=> M = {}
       /\ M # {} =>
            /\ hResult.pattern = ClaimOrder[SetMin(M)]
            /\ hResult.match = PatternSearch(ClaimOrder[SetMin(M)], hText)
       /\ 4 \in M => 3 \in M
       /\ \A s \in LineStarts(hText) :
            MatchAt("numbered_alpha", hText, s) # None
            => MatchAt("numbered", hText, s) # None
       /\ hResult.pattern # "numbered_alpha"

\* the Chapter line was returned although a Section or numbered line stands
\* before it in the text
C10_Witness ==
  /\ hResult # Unset
  /\ hResult.pattern = "chapter"
  /\ \E p \in {"section", "numbered", "numbered_alpha"} :
       /\ PatternSearch(p, hText) # None
       /\ FirstHit(p, hText) < FirstHit("chapter", hText)

====
